---- MODULE Spec2Model ----
(***************************************************************************)
(* Model of src/components/admin/AssignmentManagement.tsx: the React       *)
(* component that loads courses and assignments from the remote store,     *)
(* enriches and sorts them, and lets the acting user create and delete     *)
(* assignments.  Every await of the source is a yield point: the code      *)
(* between two awaits is one action, and the store answers a request at    *)
(* the step that resumes the handler.  Timestamps are the strings the      *)
(* store holds; user ids, course keys and titles are small sets of names.  *)
(***************************************************************************)
EXTENDS Integers, Sequences, FiniteSets, Bags, TLC

VARIABLES
  user,            \* useAuth().user: NoUser or [id, role]
  dbAssignments,   \* store collection 'assignments', in key order
  dbSubmissions,   \* store collection 'submissions', in key order
  nextKey,         \* next key push() generates in 'assignments'
  assignments,     \* useState: the displayed sequence
  courses,         \* useState: the course list (select items)
  isLoading,       \* useState
  isAddDialogOpen, \* useState
  newAssignment,   \* useState: the creation form
  runs,            \* fetchData invocations suspended at an await
  deletes,         \* handleDeleteAssignment invocations suspended at remove()
  creates,         \* handleCreateAssignment invocations suspended at push()
  now,             \* the wall clock (new Date())
  renderedAt,      \* the clock at the last render: the Active filter's new Date()
  toast,           \* the notification the last step raised, "none" without one
  reloads,         \* number of window.location.reload() calls
  written,         \* history, read by no action: the users of the last two
                   \* runs that called setAssignments since the acting user
                   \* changed or a delete wrote the list, the latest last
  navigating       \* reload() was called and the new document has not loaded yet

vars == <<user, dbAssignments, dbSubmissions, nextKey, assignments, courses,
          isLoading, isAddDialogOpen, newAssignment, runs, deletes, creates,
          now, renderedAt, toast, reloads, written, navigating>>

----------------------------------------------------------------------------
(* Bounds of the model *)

\* suspended invocations of fetchData and handleDeleteAssignment at a time
MaxPending == 2
\* creations issued while the whole form is edited
MaxCreates == 1
\* creations issued, one upon the other, from the filled form
MaxSubmits == 2
\* instants the clock advances
MaxTicks == 1

(* Program constants *)

DefaultPoints == 100
MinPoints == 1
MaxPoints == 1000

----------------------------------------------------------------------------
(* Values *)

\* user is null: it has no id and no role
NoUser == [absent |-> TRUE]

\* a teacher, the same person as an admin (a change of role only), another
\* admin (a change of id only) and a signed-in user whose id is empty
Users ==
  { NoUser,
    [id |-> "u1", role |-> "teacher"],
    [id |-> "u1", role |-> "admin"],
    [id |-> "u9", role |-> "admin"],
    [id |-> "", role |-> "admin"] }

\* user?.id is truthy: user is not null and its id is not the empty string
HasId(u) == "id" \in DOMAIN u /\ u.id # ""

\* the effect's dependencies [user?.id, user?.role], "undefined" for undefined
EffectDeps(u) ==
  << IF "id" \in DOMAIN u THEN u.id ELSE "undefined",
     IF "role" \in DOMAIN u THEN u.role ELSE "undefined" >>

\* {...a, ...b}: the fields of b win
Spread(a, b) == b @@ a

\* Timestamps as the strings the store holds; position n is instant n.
IsoStrings == <<"T1", "T2", "T3", "T4", "T5", "T6", "T7", "T8">>


\* new Date().toISOString()
ToISOString(n) == IsoStrings[n]

\* new Date(s).getTime() for a string toISOString produced
DateParse(s) == CHOOSE n \in 1..Len(IsoStrings) : IsoStrings[n] = s

\* new Date(a.created_at || 0).getTime(): a missing or empty created_at is the epoch
CreatedTime(a) ==
  IF "created_at" \in DOMAIN a /\ a.created_at # ""
  THEN DateParse(a.created_at)
  ELSE 0

\* The courses collection (read-only for this component), in key order.
DbCourses ==
  << [key |-> "c1", val |-> [title |-> "Algebra", instructor_id |-> "u1"]],
     [key |-> "c2", val |-> [title |-> "Biology", instructor_id |-> "u2"]] >>

DbAssignments0 ==
  << [key |-> 1, val |-> [title |-> "A1", course_id |-> "c1", points |-> 10,
                          created_at |-> "T2", created_by |-> "u1"]],
     [key |-> 2, val |-> [title |-> "A2", course_id |-> "c2", points |-> 20,
                          created_at |-> "T1", created_by |-> "u2"]],
     [key |-> 3, val |-> [title |-> "A3", course_id |-> "c1", points |-> 30,
                          created_by |-> "u1"]] >>

DbSubmissions0 ==
  << [key |-> "s1", val |-> [assignment_id |-> 1]],
     [key |-> "s2", val |-> [assignment_id |-> 1]],
     [key |-> "s3", val |-> [assignment_id |-> 2]] >>

\* the clock starts after every stored timestamp
FirstNow == Len(DbAssignments0)

EmptyForm ==
  [title |-> "", description |-> "", course_id |-> "", due_date |-> "",
   points |-> DefaultPoints]

----------------------------------------------------------------------------
(* Pure helpers *)

Ids(s) == {s[i].id : i \in 1..Len(s)}

\* childSnapshot => ({id: childSnapshot.key, ...childSnapshot.val()})
WithId(child) == Spread([id |-> child.key], child.val)

\* a variant that forgets the teacher's filter
CoursesQueryUnfiltered(u) == DbCourses

\* get(coursesRef): a teacher's own courses, every course for any other role
CoursesQuery(u) ==
  IF u.role = "teacher"
  THEN SelectSeq(DbCourses, LAMBDA c : c.val.instructor_id = u.id)
  ELSE DbCourses

\* get(query(ref 'assignments', orderByChild('course_id'), equalTo(cid)))
AssignmentsQuery(db, cid) == SelectSeq(db, LAMBDA a : a.val.course_id = cid)

\* assignmentsData.push({id, ...val, course_title: course.title})
EnrichAssignment(child, course) ==
  Spread(WithId(child), [course_title |-> course.title])

\* submissionsSnapshot.forEach(() => submissionCount++)
SubmissionCount(subs, aid) ==
  Len(SelectSeq(subs, LAMBDA s : s.val.assignment_id = aid))

\* the comparator of assignmentsData.sort
Compare(a, b) == CreatedTime(b) - CreatedTime(a)

\* insert x behind every element it does not sort before (stable)
RECURSIVE InsertSorted(_, _)
InsertSorted(x, s) ==
  IF s = <<>> THEN <<x>>
  ELSE IF Compare(x, Head(s)) < 0 THEN <<x>> \o s
  ELSE <<Head(s)>> \o InsertSorted(x, Tail(s))

\* a variant that leaves the fetch order
SortAssignmentsSkipped(s) == s

\* assignmentsData.sort((a, b) => ...): stable, most recent first
RECURSIVE SortAssignments(_)
SortAssignments(s) ==
  IF s = <<>> THEN <<>>
  ELSE InsertSorted(s[Len(s)], SortAssignments(SubSeq(s, 1, Len(s) - 1)))

\* assignments.filter(a => a.id !== assignmentId)
WithoutId(s, aid) == SelectSeq(s, LAMBDA a : a.id # aid)

\* the filter of the "Active Assignments" card, which holds the delete buttons
IsActive(a, t) ==
  ~ ("due_date" \in DOMAIN a /\ a.due_date # "" /\ DateParse(a.due_date) < t)

----------------------------------------------------------------------------
(* The component after mount: useState initial values, then the effect *)

\* Suspended invocations are kept in bags: two invocations in the same
\* position are two entries.
Put(B, x) == B (+) SetToBag({x})
Take(B, x) == B (-) SetToBag({x})

\* a state setter stored a new value (or the context changed): the component
\* renders and the Active filter reads the clock again
Render == renderedAt' = now

\* no setter was called, or it stored the value it held: the rendered tree stays
NoRender == renderedAt' = renderedAt

\* fetchData up to its first await: get(coursesRef) is outstanding.
\* steady and wrote are history, read by no action: steady is TRUE while the
\* store has not changed since the run began, wrote becomes TRUE when the run
\* changes the displayed course list.
NewRun(u) ==
  [user |-> u, pc |-> "courses",
   coursesData |-> <<>>, ci |-> 0, assignmentsData |-> <<>>, si |-> 0,
   steady |-> TRUE, wrote |-> FALSE]

\* a variant whose effect cancels the runs in flight
RunsAfterEffectCancelling(u, rs) ==
  IF HasId(u) THEN SetToBag({NewRun(u)}) ELSE rs

\* the effect: fetchData() returns at once when the user id is absent
RunsAfterEffect(u, rs) ==
  IF HasId(u) THEN Put(rs, NewRun(u)) ELSE rs

LoadingAfterEffect(u, loading) == IF HasId(u) THEN loading ELSE FALSE

\* suspended invocations of fetchData and handleDeleteAssignment
Pending == BagCardinality(runs) + BagCardinality(deletes)

Init ==
  /\ user \in Users
  /\ dbAssignments = DbAssignments0
  /\ dbSubmissions = DbSubmissions0
  /\ nextKey = Len(DbAssignments0) + 1
  /\ assignments = <<>>
  /\ courses = <<>>
  /\ isLoading = LoadingAfterEffect(user, TRUE)
  /\ isAddDialogOpen = FALSE
  /\ newAssignment = EmptyForm
  /\ runs = RunsAfterEffect(user, EmptyBag)
  /\ deletes = EmptyBag
  /\ creates = EmptyBag
  /\ now = FirstNow
  /\ renderedAt = FirstNow
  /\ toast = "none"
  /\ reloads = 0
  /\ written = <<>>
  /\ navigating = FALSE

----------------------------------------------------------------------------
(* The acting user changes: the effect's dependencies [user?.id, user?.role] *)

UserChange(u) ==
  /\ u # user
  /\ HasId(u) => Pending < MaxPending
  /\ user' = u
  /\ IF EffectDeps(u) # EffectDeps(user)
     THEN /\ runs' = RunsAfterEffect(u, runs)
          /\ isLoading' = LoadingAfterEffect(u, isLoading)
     ELSE UNCHANGED <<runs, isLoading>>
  /\ UNCHANGED <<dbAssignments, dbSubmissions, nextKey, assignments, courses,
                 isAddDialogOpen, newAssignment, deletes, creates, now, reloads,
                 navigating>>
  /\ written' = <<>>
  /\ Render
  /\ toast' = "none"

----------------------------------------------------------------------------
(* fetchData: one action per round trip *)

\* the last two entries of s
LastTwo(s) == IF Len(s) > 2 THEN Tail(s) ELSE s

\* the end of the try block: sort, setAssignments, finally setIsLoading(false)
Finish(r, data) ==
  /\ assignments' = SortAssignments(data)
  /\ written' = LastTwo(Append(written, r.user))
  /\ isLoading' = FALSE
  /\ runs' = Take(runs, r)
  /\ Render

Suspend(r, r2) ==
  /\ runs' = Put(Take(runs, r), r2)
  /\ UNCHANGED <<assignments, isLoading, renderedAt, written>>

\* after the assignment loop: the submission loop, or the end when it is empty
AfterAssignments(r, data) ==
  IF data # <<>>
  THEN Suspend(r, [r EXCEPT !.pc = "submissions", !.assignmentsData = data, !.si = 1])
  ELSE Finish(r, data)

\* get(coursesRef) answers
RunCoursesOk(r) ==
  /\ r.pc = "courses"
  /\ LET found == CoursesQuery(r.user)
         data == [i \in 1..Len(found) |-> WithId(found[i])]
     IN
       /\ courses' = data
       /\ IF data # <<>>
          THEN /\ runs' = Put(Take(runs, r),
                              [r EXCEPT !.pc = "assignments", !.coursesData = data,
                                        !.ci = 1, !.wrote = (data # courses)])
               /\ UNCHANGED <<assignments, isLoading, written>>
               /\ Render
          ELSE Finish(r, <<>>)
  /\ UNCHANGED <<user, dbAssignments, dbSubmissions, nextKey, isAddDialogOpen,
                 newAssignment, deletes, creates, now, reloads, navigating>>
  /\ toast' = "none"

\* get(assignmentsRef) answers for course r.coursesData[r.ci]
RunAssignmentsOk(r) ==
  /\ r.pc = "assignments"
  /\ LET course == r.coursesData[r.ci]
         found == AssignmentsQuery(dbAssignments, course.id)
         data == r.assignmentsData \o
                   [i \in 1..Len(found) |-> EnrichAssignment(found[i], course)]
     IN IF r.ci < Len(r.coursesData)
        THEN Suspend(r, [r EXCEPT !.assignmentsData = data, !.ci = r.ci + 1])
        ELSE AfterAssignments(r, data)
  /\ UNCHANGED <<user, dbAssignments, dbSubmissions, nextKey, courses,
                 isAddDialogOpen, newAssignment, deletes, creates, now, reloads,
                 navigating>>
  /\ toast' = "none"

\* get(submissionsRef) answers for assignment r.assignmentsData[r.si]
RunSubmissionsOk(r) ==
  /\ r.pc = "submissions"
  /\ LET a == r.assignmentsData[r.si]
         counted == Spread(a, [submissions_count |-> SubmissionCount(dbSubmissions, a.id)])
         data == [r.assignmentsData EXCEPT ![r.si] = counted]
     IN IF r.si < Len(r.assignmentsData)
        THEN Suspend(r, [r EXCEPT !.assignmentsData = data, !.si = r.si + 1])
        ELSE Finish(r, data)
  /\ UNCHANGED <<user, dbAssignments, dbSubmissions, nextKey, courses,
                 isAddDialogOpen, newAssignment, deletes, creates, now, reloads,
                 navigating>>
  /\ toast' = "none"

\* the outstanding get() rejects: catch, toast.error, finally setIsLoading(false)
RunFail(r) ==
  /\ toast' = "Failed to load assignments."
  /\ isLoading' = FALSE
  /\ IF isLoading THEN Render ELSE NoRender
  /\ runs' = Take(runs, r)
  /\ UNCHANGED <<user, dbAssignments, dbSubmissions, nextKey, assignments,
                 courses, isAddDialogOpen, newAssignment, deletes, creates, now,
                 reloads, written, navigating>>

----------------------------------------------------------------------------
(* handleDeleteAssignment *)

\* the ids that show a delete button: the Active card of the last render,
\* once loading has ended; the buttons stay until the next render
Deletable ==
  IF isLoading THEN {}
  ELSE {assignments[i].id :
          i \in {j \in 1..Len(assignments) : IsActive(assignments[j], renderedAt)}}

\* the click on a delete button and the answer of confirm(): on yes remove()
\* is issued; snap is the `assignments` the handler closed over, the displayed
\* sequence of the render that was clicked.  On no, nothing happens.
handleDeleteAssignment(x, answer) ==
  /\ x \in Deletable
  /\ IF answer
     THEN /\ Pending < MaxPending
          /\ deletes' = Put(deletes, [id |-> x, snap |-> assignments, live |-> TRUE])
     ELSE UNCHANGED deletes
  /\ UNCHANGED <<user, dbAssignments, dbSubmissions, nextKey, assignments,
                 courses, isLoading, isAddDialogOpen, newAssignment, runs,
                 creates, now, renderedAt, reloads, written, navigating>>
  /\ toast' = "none"

\* the suspended runs after a write to the store
RECURSIVE Unsteady(_)
Unsteady(rs) ==
  IF rs = EmptyBag THEN EmptyBag
  ELSE LET r == CHOOSE x \in BagToSet(rs) : TRUE
       IN Put(Unsteady(Take(rs, r)), [r EXCEPT !.steady = FALSE])

RunsAfterWrite(rs, db, db2) == IF db2 # db THEN Unsteady(rs) ELSE rs

\* remove(ref(database, `assignments/${id}`)) as the store applies it
StoreRemove(db, aid) == SelectSeq(db, LAMBDA a : a.key # aid)

\* setAssignments(assignments.filter(a => a.id !== assignmentId))
DisplayedAfterDelete(d) == WithoutId(d.snap, d.id)

\* remove() resolves: the record is gone from the store and the handler
\* resumes; a request whose document has been replaced only reaches the store
DeleteOk(d) ==
  /\ dbAssignments' = StoreRemove(dbAssignments, d.id)
  /\ runs' = RunsAfterWrite(runs, dbAssignments, dbAssignments')
  /\ deletes' = Take(deletes, d)
  /\ IF d.live
     THEN /\ assignments' = DisplayedAfterDelete(d)
          /\ written' = <<>>
          /\ Render
          /\ toast' = "Assignment deleted successfully"
     ELSE /\ UNCHANGED <<assignments, written>>
          /\ NoRender
          /\ toast' = "none"
  /\ UNCHANGED <<user, dbSubmissions, nextKey, courses, isLoading,
                 isAddDialogOpen, newAssignment, creates, now, reloads,
                 navigating>>

\* remove() rejects: catch, toast.error
DeleteFail(d) ==
  /\ d.live
  /\ toast' = "Failed to delete assignment"
  /\ deletes' = Take(deletes, d)
  /\ UNCHANGED <<user, dbAssignments, dbSubmissions, nextKey, assignments,
                 courses, isLoading, isAddDialogOpen, newAssignment, runs,
                 creates, now, renderedAt, reloads, written, navigating>>

----------------------------------------------------------------------------
(* The creation form *)

\* A text is the sequence of the UTF-16 code units of a string.

\* StrWhiteSpaceChar, which parseInt skips in front of the number: TAB, LF,
\* VT, FF, CR, SP, NBSP, the other space separators, LS, PS and the BOM
WhiteSpace ==
  {9, 10, 11, 12, 13, 32, 160, 5760} \cup (8192..8202) \cup
  {8232, 8233, 8239, 8287, 12288, 65279}

\* the value of code unit c as a digit: 0-9, a-z, A-Z; 36 for any other
DigitValue(c) ==
  IF c \in 48..57 THEN c - 48
  ELSE IF c \in 97..122 THEN c - 87
  ELSE IF c \in 65..90 THEN c - 55
  ELSE 36

IsDigit(c, radix) == DigitValue(c) < radix

RECURSIVE TrimStart(_)
TrimStart(s) ==
  IF s # <<>> /\ Head(s) \in WhiteSpace THEN TrimStart(Tail(s)) ELSE s

RECURSIVE DigitsPrefix(_, _)
DigitsPrefix(s, radix) ==
  IF s # <<>> /\ IsDigit(Head(s), radix)
  THEN <<Head(s)>> \o DigitsPrefix(Tail(s), radix)
  ELSE <<>>

RECURSIVE DigitsValue(_, _)
DigitsValue(ds, radix) ==
  IF ds = <<>> THEN 0
  ELSE DigitsValue(SubSeq(ds, 1, Len(ds) - 1), radix) * radix + DigitValue(ds[Len(ds)])

\* parseInt(text) without a radix: leading white space is skipped, then an
\* optional sign (+ is 43, - is 45), then 0x or 0X selects radix 16, then the
\* leading digits of the radix; NaN without any digit
ParseInt(text) ==
  LET trimmed == TrimStart(text)
      signed == trimmed # <<>> /\ Head(trimmed) \in {43, 45}
      neg == signed /\ Head(trimmed) = 45
      unsigned == IF signed THEN Tail(trimmed) ELSE trimmed
      hex == Len(unsigned) >= 2 /\ unsigned[1] = 48 /\ unsigned[2] \in {120, 88}
      radix == IF hex THEN 16 ELSE 10
      body == IF hex THEN Tail(Tail(unsigned)) ELSE unsigned
      ds == DigitsPrefix(body, radix)
  IN IF ds = <<>> THEN [nan |-> TRUE, n |-> 0]
     ELSE [nan |-> FALSE,
           n |-> IF neg THEN 0 - DigitsValue(ds, radix) ELSE DigitsValue(ds, radix)]

\* parseInt(e.target.value) || 0
PointsOf(text) ==
  LET v == ParseInt(text) IN IF v.nan \/ v.n = 0 THEN 0 ELSE v.n

\* what the number input can deliver: the empty string or a number literal,
\* here "", "-7" and "1001"
PointsTexts ==
  { <<>>, <<45, 55>>, <<49, 48, 48, 49>> }

\* (name, value) pairs the title input sends to handleInputChange
TitleInputs == { <<"title", "HW">>, <<"title", "">> }

\* (name, value) pairs of the inputs wired to handleInputChange
TextInputs == TitleInputs \cup { <<"due_date", ToISOString(FirstNow)>> }

\* the form's setters store a new value: the component renders
FormFrame ==
  /\ toast' = "none"
  /\ Render
  /\ UNCHANGED <<user, dbAssignments, dbSubmissions, nextKey, assignments,
                 courses, isLoading, runs, deletes, creates, now, reloads,
                 written, navigating>>

\* the DialogTrigger button
OpenDialog ==
  /\ ~isAddDialogOpen
  /\ isAddDialogOpen' = TRUE
  /\ UNCHANGED newAssignment
  /\ FormFrame

\* the Cancel button
CloseDialog ==
  /\ isAddDialogOpen
  /\ isAddDialogOpen' = FALSE
  /\ UNCHANGED newAssignment
  /\ FormFrame

handleInputChange(name, value) ==
  /\ isAddDialogOpen
  /\ newAssignment' = [newAssignment EXCEPT ![name] = value]
  /\ UNCHANGED isAddDialogOpen
  /\ FormFrame

\* the Select's onValueChange: its items are the loaded courses
SelectCourse(cid) ==
  /\ isAddDialogOpen
  /\ cid \in Ids(courses)
  /\ newAssignment' = [newAssignment EXCEPT !.course_id = cid]
  /\ UNCHANGED isAddDialogOpen
  /\ FormFrame

handlePointsChange(text) ==
  /\ isAddDialogOpen
  /\ newAssignment' = [newAssignment EXCEPT !.points = PointsOf(text)]
  /\ UNCHANGED isAddDialogOpen
  /\ FormFrame

----------------------------------------------------------------------------
(* handleCreateAssignment *)

\* a variant that checks the title only
IsInvalidTitleOnly(f) == f.title = ""

\* !newAssignment.title || !newAssignment.course_id
IsInvalid(f) == f.title = "" \/ f.course_id = ""

\* {...newAssignment, created_at: new Date().toISOString(), created_by: user.id}
AssignmentData(f, u, t) ==
  Spread(f, [created_at |-> ToISOString(t), created_by |-> u.id])

CreateFrame ==
  UNCHANGED <<user, dbAssignments, dbSubmissions, nextKey, assignments, courses,
              isLoading, isAddDialogOpen, newAssignment, runs, deletes, now,
              renderedAt, reloads, written, navigating>>

\* validation fails: toast.error and return
CreateInvalid ==
  /\ isAddDialogOpen
  /\ IsInvalid(newAssignment)
  /\ toast' = "Title and course are required"
  /\ UNCHANGED creates
  /\ CreateFrame

\* user is null: reading user.id throws inside the try, push() is never called
CreateNoUser ==
  /\ isAddDialogOpen
  /\ ~IsInvalid(newAssignment)
  /\ user = NoUser
  /\ toast' = "Failed to create assignment"
  /\ UNCHANGED creates
  /\ CreateFrame

\* records written so far, or on their way
CreatesIssued == (nextKey - Len(DbAssignments0) - 1) + BagCardinality(creates)

\* push(assignmentsRef, assignmentData) is issued; the button stays enabled
\* while a push is outstanding
CreateSend ==
  /\ isAddDialogOpen
  /\ ~IsInvalid(newAssignment)
  /\ user # NoUser
  /\ creates' = Put(creates, [data |-> AssignmentData(newAssignment, user, now),
                              live |-> TRUE])
  /\ toast' = "none"
  /\ CreateFrame

\* the click that issues a creation, while fewer than limit have been issued
Submit(limit) == CreatesIssued < limit /\ CreateSend

\* push() resolves: the record is in the store and the handler resumes:
\* toast.success, the dialog closes, the form resets, and
\* window.location.reload() starts the navigation and returns; the document
\* keeps running until the new one replaces it.  A request whose document
\* has been replaced only reaches the store.
CreateOk(c) ==
  /\ dbAssignments' = Append(dbAssignments, [key |-> nextKey, val |-> c.data])
  /\ nextKey' = nextKey + 1
  /\ creates' = Take(creates, c)
  /\ runs' = RunsAfterWrite(runs, dbAssignments, dbAssignments')
  /\ IF c.live
     THEN /\ toast' = "Assignment created successfully"
          /\ isAddDialogOpen' = FALSE
          /\ newAssignment' = EmptyForm
          /\ Render
          /\ reloads' = reloads + 1
          /\ navigating' = TRUE
     ELSE /\ toast' = "none"
          /\ NoRender
          /\ UNCHANGED <<isAddDialogOpen, newAssignment, reloads, navigating>>
  /\ UNCHANGED <<user, dbSubmissions, assignments, courses, isLoading, deletes,
                 now, written>>

\* push() rejects: catch, toast.error
CreateFail(c) ==
  /\ c.live
  /\ toast' = "Failed to create assignment"
  /\ creates' = Take(creates, c)
  /\ CreateFrame

\* the requests a replaced document leaves behind: they may still reach the
\* store, no handler waits for them
RECURSIVE Orphaned(_)
Orphaned(B) ==
  IF B = EmptyBag THEN EmptyBag
  ELSE LET x == CHOOSE y \in BagToSet(B) : TRUE
       IN Put(Orphaned(Take(B, x)), [x EXCEPT !.live = FALSE])

\* the navigation reload() started completes: the old document, its state
\* and its suspended handlers are gone; the component mounts again with its
\* initial state and its effect runs.  u is the acting user the auth context
\* gives the new page.
PageLoad(u) ==
  /\ navigating
  /\ navigating' = FALSE
  /\ user' = u
  /\ assignments' = <<>>
  /\ courses' = <<>>
  /\ isAddDialogOpen' = FALSE
  /\ newAssignment' = EmptyForm
  /\ isLoading' = LoadingAfterEffect(u, TRUE)
  /\ runs' = RunsAfterEffect(u, EmptyBag)
  /\ deletes' = Orphaned(deletes)
  /\ creates' = Orphaned(creates)
  /\ written' = <<>>
  /\ Render
  /\ toast' = "none"
  /\ UNCHANGED <<dbAssignments, dbSubmissions, nextKey, now, reloads>>

----------------------------------------------------------------------------
(* Time passes *)

Tick ==
  /\ now < FirstNow + MaxTicks
  /\ now' = now + 1
  /\ UNCHANGED <<user, dbAssignments, dbSubmissions, nextKey, assignments,
                 courses, isLoading, isAddDialogOpen, newAssignment, runs,
                 deletes, creates, renderedAt, reloads, written, navigating>>
  /\ toast' = "none"

----------------------------------------------------------------------------

Next ==
  \/ \E u \in Users : UserChange(u)
  \/ \E r \in BagToSet(runs) : RunCoursesOk(r)
  \/ \E r \in BagToSet(runs) : RunAssignmentsOk(r)
  \/ \E r \in BagToSet(runs) : RunSubmissionsOk(r)
  \/ \E r \in BagToSet(runs) : RunFail(r)
  \/ \E x \in Deletable, answer \in BOOLEAN : handleDeleteAssignment(x, answer)
  \/ \E d \in BagToSet(deletes) : DeleteOk(d)
  \/ \E d \in BagToSet(deletes) : DeleteFail(d)
  \/ OpenDialog
  \/ CloseDialog
  \/ \E in \in TextInputs : handleInputChange(in[1], in[2])
  \/ \E cid \in Ids(courses) : SelectCourse(cid)
  \/ \E text \in PointsTexts : handlePointsChange(text)
  \/ CreateInvalid
  \/ CreateNoUser
  \/ Submit(MaxSubmits)
  \/ \E c \in BagToSet(creates) : CreateOk(c)
  \/ \E c \in BagToSet(creates) : CreateFail(c)
  \/ \E u \in Users : PageLoad(u)
  \/ Tick

Spec == Init /\ [][Next]_vars

----------------------------------------------------------------------------
(* Three scenarios of use.  The whole component (Spec) is the product of the  *)
(* list side and the form side, which share only the course list and the    *)
(* page reload; each scenario keeps one side's interactions.                *)

\* the user watches the list: acting-user changes, loads, deletes
NextLoad ==
  \/ \E u \in Users : UserChange(u)
  \/ \E r \in BagToSet(runs) : RunCoursesOk(r)
  \/ \E r \in BagToSet(runs) : RunAssignmentsOk(r)
  \/ \E r \in BagToSet(runs) : RunSubmissionsOk(r)
  \/ \E r \in BagToSet(runs) : RunFail(r)
  \/ \E x \in Deletable, answer \in BOOLEAN : handleDeleteAssignment(x, answer)
  \/ \E d \in BagToSet(deletes) : DeleteOk(d)
  \/ \E d \in BagToSet(deletes) : DeleteFail(d)

SpecLoad == Init /\ [][NextLoad]_vars

\* the user fills in title, course and points and creates an assignment
NextCreate ==
  \/ UserChange(NoUser)
  \/ \E r \in BagToSet(runs) : RunCoursesOk(r)
  \/ \E r \in BagToSet(runs) : RunAssignmentsOk(r)
  \/ \E r \in BagToSet(runs) : RunSubmissionsOk(r)
  \/ \E r \in BagToSet(runs) : RunFail(r)
  \/ OpenDialog
  \/ CloseDialog
  \/ \E in \in TitleInputs : handleInputChange(in[1], in[2])
  \/ \E cid \in Ids(courses) : SelectCourse(cid)
  \/ \E text \in PointsTexts : handlePointsChange(text)
  \/ CreateInvalid
  \/ CreateNoUser
  \/ Submit(MaxCreates)
  \/ \E c \in BagToSet(creates) : CreateOk(c)
  \/ \E c \in BagToSet(creates) : CreateFail(c)
  \/ \E u \in Users : PageLoad(u)
  \/ Tick

SpecCreate == Init /\ [][NextCreate]_vars

\* the user fills in title and course and clicks Create, also while a
\* creation is outstanding
NextSubmit ==
  \/ \E r \in BagToSet(runs) : RunCoursesOk(r)
  \/ \E r \in BagToSet(runs) : RunAssignmentsOk(r)
  \/ \E r \in BagToSet(runs) : RunSubmissionsOk(r)
  \/ \E r \in BagToSet(runs) : RunFail(r)
  \/ OpenDialog
  \/ handleInputChange("title", "HW")
  \/ \E cid \in Ids(courses) : SelectCourse(cid)
  \/ Submit(MaxSubmits)
  \/ \E c \in BagToSet(creates) : CreateOk(c)
  \/ \E c \in BagToSet(creates) : CreateFail(c)
  \/ \E u \in Users : PageLoad(u)
  \/ Tick

SpecSubmit == Init /\ [][NextSubmit]_vars

----------------------------------------------------------------------------
(* Vocabulary of the properties *)

Keys(db) == {db[i].key : i \in 1..Len(db)}

\* user?.role, the empty string standing for undefined
RoleOf(u) == IF "role" \in DOMAIN u THEN u.role ELSE ""

\* course cid is in the scope the specification gives user u by role
InRoleScope(u, cid) ==
  \E i \in 1..Len(DbCourses) :
    /\ DbCourses[i].key = cid
    /\ RoleOf(u) = "teacher" => DbCourses[i].val.instructor_id = u.id

\* CourseScope: no course at all when the user id is absent
InCourseScope(u, cid) == HasId(u) /\ InRoleScope(u, cid)

TitleOfCourse(cid) ==
  (CHOOSE c \in {DbCourses[i] : i \in 1..Len(DbCourses)} : c.key = cid).val.title

\* as is exactly the enrichment of the stored assignments whose course is
\* in the scope of u's role: one entry each and no other, with title and count
ExactResult(u, as) ==
  /\ Ids(as) = {dbAssignments[i].key :
                  i \in {j \in 1..Len(dbAssignments) :
                           InRoleScope(u, dbAssignments[j].val.course_id)}}
  /\ Len(as) = Cardinality(Ids(as))
  /\ \A i \in 1..Len(as) :
       /\ {"course_title", "submissions_count"} \subseteq DOMAIN as[i]
       /\ as[i].course_title = TitleOfCourse(as[i].course_id)
       /\ as[i].submissions_count =
            Cardinality({k \in 1..Len(dbSubmissions) :
                           dbSubmissions[k].val.assignment_id = as[i].id})

\* this step replaces the document: the navigation reload() started ends
DocumentReplaced == navigating /\ ~navigating'

\* run r waits for the answer to its last round trip: the next answer takes
\* it to the sort and setAssignments
AtLastRoundTrip(r) ==
  \/ /\ r.pc = "courses"
     /\ CoursesQuery(r.user) = <<>>
  \/ /\ r.pc = "assignments"
     /\ r.ci = Len(r.coursesData)
     /\ r.assignmentsData = <<>>
     /\ AssignmentsQuery(dbAssignments, r.coursesData[r.ci].id) = <<>>
  \/ /\ r.pc = "submissions"
     /\ r.si = Len(r.assignmentsData)

\* this step ends run r with its last round trip answered: the run reaches
\* the sort, setAssignments and the finally block
Completes(r) ==
  /\ r \in BagToSet(runs)
  /\ AtLastRoundTrip(r)
  /\ runs' = Take(runs, r)
  /\ toast' = "none"
  /\ ~DocumentReplaced

\* this step ends run r in its catch block: a round trip was rejected
Fails(r) ==
  /\ r \in BagToSet(runs)
  /\ runs' = Take(runs, r)
  /\ toast' = "Failed to load assignments."
  /\ ~DocumentReplaced

\* this step resumes the handler of delete d after remove() resolved
Deletes(d) ==
  /\ d \in BagToSet(deletes)
  /\ deletes' = Take(deletes, d)
  /\ toast' = "Assignment deleted successfully"

HasTime(a) == "created_at" \in DOMAIN a /\ a.created_at # ""

----------------------------------------------------------------------------
(* C1 *)

\* C1: in every reachable state every displayed assignment's course_id is a
\* course in the CourseScope of the current acting user (own courses for a
\* teacher, all courses for another role, none when the user id is absent).
C1_DisplayedInScope ==
  \A i \in 1..Len(assignments) : InCourseScope(user, assignments[i].course_id)

----------------------------------------------------------------------------
(* C2 *)

\* C2: a pipeline run that completes without a round-trip failure against a
\* store that did not change during the run leaves displayed exactly one
\* entry for each stored assignment of a course in the scope of the run's
\* user (a teacher's own courses, every course for any other role) and no
\* other entry, each with its course's title as course_title and the number
\* of stored submissions of its id as submissions_count.  This is so for the
\* run with nothing interleaved, and also when other runs or pending deletes
\* interleave without changing the store.
C2_RunResult ==
  [][ \A r \in BagToSet(runs) :
        (Completes(r) /\ r.steady) => ExactResult(r.user, assignments') ]_vars

\* a teacher's run, the only one since the user was set, has completed with
\* nothing pending and the store as it was: two of the three stored
\* assignments show
C2_Witness ==
  /\ Pending = 0
  /\ written = <<user>>
  /\ RoleOf(user) = "teacher"
  /\ dbAssignments = DbAssignments0
  /\ Len(assignments) = 2
  /\ ExactResult(user, assignments)

----------------------------------------------------------------------------
(* C3 *)

\* C3: in every reachable state the displayed sequence is ordered by
\* created_at, most recent first, and an assignment without created_at comes
\* after every assignment that has one.
C3_Sorted ==
  \A i, j \in 1..Len(assignments) :
    i < j =>
      /\ HasTime(assignments[j]) => HasTime(assignments[i])
      /\ (HasTime(assignments[i]) /\ HasTime(assignments[j])) =>
           DateParse(assignments[i].created_at) >= DateParse(assignments[j].created_at)

\* a delete has just removed one of the three sorted entries
C3_Witness ==
  /\ toast = "Assignment deleted successfully"
  /\ Len(assignments) = 2
  /\ HasTime(assignments[1]) /\ ~HasTime(assignments[2])

----------------------------------------------------------------------------
(* C4 *)

\* C4: a creation attempt with an empty title or an empty course_id reports
\* the validation failure and does nothing else: no write is issued, the
\* store, the form, the dialog and the displayed state stay as they are and
\* the page is not reloaded.
C4_ValidationFailure ==
  [][ /\ (newAssignment.title = "" \/ newAssignment.course_id = "") =>
           BagCardinality(creates') <= BagCardinality(creates)
      /\ toast' = "Title and course are required" =>
           /\ newAssignment.title = "" \/ newAssignment.course_id = ""
           /\ UNCHANGED <<dbAssignments, nextKey, creates, newAssignment,
                          isAddDialogOpen, assignments, courses, runs, reloads,
                          navigating>> ]_vars

\* the attempt of the specification's example has just been rejected
C4_Witness ==
  /\ toast = "Title and course are required"
  /\ isAddDialogOpen
  /\ newAssignment.title = ""
  /\ newAssignment.course_id # ""
  /\ creates = EmptyBag
  /\ reloads = 0

----------------------------------------------------------------------------
(* C5 *)

UserIds == {u.id : u \in {v \in Users : HasId(v)}}

\* C5: a creation that passes validation issues one write that carries the
\* form's fields, created_at = now and created_by = the acting user's id,
\* which is present; every write that succeeds appends exactly that one
\* record, leaves the displayed sequence alone (no local insert) and starts
\* the page reload, after which the page starts from the empty state and
\* fetches everything again.  When the write fails the store and the
\* displayed sequence stay as they are and the page is not reloaded.
C5_Creation ==
  [][ /\ BagCardinality(creates') > BagCardinality(creates) =>
           /\ HasId(user)
           /\ \E c \in BagToSet(creates') :
                /\ creates' = Put(creates, c)
                /\ \A k \in DOMAIN newAssignment :
                     k \in DOMAIN c.data /\ c.data[k] = newAssignment[k]
                /\ {"created_at", "created_by"} \subseteq DOMAIN c.data
                /\ c.data.created_at = ToISOString(now)
                /\ c.data.created_by = user.id
      /\ Len(dbAssignments') > Len(dbAssignments) =>
           /\ Len(dbAssignments') = Len(dbAssignments) + 1
           /\ SubSeq(dbAssignments', 1, Len(dbAssignments)) = dbAssignments
           /\ LET new == dbAssignments'[Len(dbAssignments')] IN
                /\ new.key \notin Keys(dbAssignments)
                /\ \E c \in BagToSet(creates) : new.val = c.data /\ creates' = Take(creates, c)
                /\ "created_by" \in DOMAIN new.val /\ new.val.created_by \in UserIds
           /\ UNCHANGED <<assignments, courses>>
           /\ reloads' = reloads + 1
           /\ navigating'
      /\ reloads' # reloads => Len(dbAssignments') > Len(dbAssignments)
      /\ (navigating /\ ~navigating') =>
           /\ assignments' = <<>> /\ courses' = <<>>
           /\ isLoading' = HasId(user')
           /\ HasId(user') => \E r \in BagToSet(runs') :
                                /\ runs' = SetToBag({r})
                                /\ r.pc = "courses" /\ r.user = user' /\ r.steady
      /\ (navigating' /\ ~navigating) => reloads' # reloads
      /\ toast' = "Failed to create assignment" =>
           UNCHANGED <<dbAssignments, assignments, reloads, navigating>> ]_vars

----------------------------------------------------------------------------
(* C6 *)

\* C6: every assignment record in the store has points between 1 and 1000.
C6_PointsInRange ==
  \A i \in 1..Len(dbAssignments) :
    dbAssignments[i].val.points \in MinPoints..MaxPoints

----------------------------------------------------------------------------
(* C7 *)

\* C7: a confirmed delete of an existing assignment whose removal succeeds
\* takes exactly that assignment out of the store and out of the displayed
\* sequence and leaves the submissions alone; a delete that is declined or
\* whose removal fails changes neither the store nor the displayed sequence.
C7_DeleteFrame ==
  [][ /\ \A d \in BagToSet(deletes) :
           (Deletes(d) /\ d.id \in Keys(dbAssignments)) =>
             /\ dbAssignments' = SelectSeq(dbAssignments, LAMBDA a : a.key # d.id)
             /\ assignments' = SelectSeq(assignments, LAMBDA a : a.id # d.id)
             /\ dbSubmissions' = dbSubmissions
      /\ toast' = "Failed to delete assignment" =>
           UNCHANGED <<dbAssignments, assignments>>
      /\ BagCardinality(deletes') >= BagCardinality(deletes) =>
           dbAssignments' = dbAssignments ]_vars

----------------------------------------------------------------------------
(* C8 *)

\* C8: when a round trip of a run fails, an error notification is raised,
\* loading ends, and the displayed sequence and the course list are what
\* they were before the run began: the run has shown nothing of its own.
C8_FailureLeavesState ==
  [][ \A r \in BagToSet(runs) :
        Fails(r) =>
          /\ ~isLoading'
          /\ UNCHANGED <<assignments, courses>>
          /\ ~r.wrote ]_vars

----------------------------------------------------------------------------
(* C9 *)

\* within a run the round trips are issued one at a time: the submission
\* fetches begin only after the last per-course assignment fetch has answered
C9_Sequential ==
  \A r \in BagToSet(runs) :
    /\ r.pc = "courses" => r.ci = 0 /\ r.si = 0
    /\ r.pc = "assignments" => r.ci \in 1..Len(r.coursesData) /\ r.si = 0
    /\ r.pc = "submissions" =>
         /\ r.ci = Len(r.coursesData)
         /\ r.si \in 1..Len(r.assignmentsData)
    /\ \A i \in 1..Len(r.assignmentsData) :
         "submissions_count" \in DOMAIN r.assignmentsData[i] <=> i < r.si

\* a run in flight is never held back: its outstanding round trip can be
\* answered, whatever else is in flight and whoever the acting user is
C9_NeverBlocked ==
  \A r \in BagToSet(runs) :
    ENABLED (RunCoursesOk(r) \/ RunAssignmentsOk(r) \/ RunSubmissionsOk(r))

\* a change of the acting user's id or role calls fetchData again and leaves
\* every run in flight where it is; a run leaves the runs in flight only by
\* its own end (or with the whole document); a completing run writes its own
\* result, whoever the acting user is by then
C9_LastWriteWins ==
  [][ /\ (user' # user /\ ~DocumentReplaced) =>
           IF HasId(user')
           THEN \E n \in BagToSet(runs') :
                  /\ runs' = Put(runs, n)
                  /\ n.user = user' /\ n.pc = "courses"
           ELSE runs' = runs /\ ~isLoading'
      /\ BagCardinality(runs') < BagCardinality(runs) =>
           \/ \E r \in BagToSet(runs) : Completes(r) \/ Fails(r)
           \/ DocumentReplaced
      /\ \A r \in BagToSet(runs) :
           Completes(r) =>
             /\ Ids(assignments') = Ids(r.assignmentsData)
             /\ \A i \in 1..Len(assignments') :
                  InRoleScope(r.user, assignments'[i].course_id) ]_vars

\* C9: a change of the acting user's id or role starts a new run and cancels
\* none; every run in flight goes on to its end, one round trip at a time,
\* the submission fetches only after the last per-course assignment fetch;
\* a completing run overwrites the displayed sequence with its own result,
\* so the run that writes last wins, also when it is the stale one.
C9_Race == []C9_Sequential /\ []C9_NeverBlocked /\ C9_LastWriteWins

\* since the acting user changed, the run of the current user has completed
\* and then the stale run of another user has completed and written last:
\* nothing is pending, the store is as it was, and the displayed sequence is
\* the stale run's result and not the current user's
C9_Witness ==
  /\ Pending = 0
  /\ Len(written) = 2
  /\ written[1] = user
  /\ written[2] # user
  /\ dbAssignments = DbAssignments0
  /\ ExactResult(written[2], assignments)
  /\ ~ExactResult(user, assignments)

----------------------------------------------------------------------------
(* C10 *)

\* C10: once every pending load and delete has finished, every displayed
\* assignment still exists in the store: a deleted assignment does not come
\* back.
C10_DeletedStaysGone ==
  Pending = 0 => Ids(assignments) \subseteq Keys(dbAssignments)

====
